---------------------------- MODULE Spec2Model ----------------------------
(***************************************************************************)
(* olympus: the fall of an anvil from a given altitude, integrated with    *)
(* forward Euler under gravity and drag (src/src/main.rs).                 *)
(*                                                                         *)
(* The program computes in f64.  The model computes in fixed point, each   *)
(* quantity an integer count of the unit named in Unit, and keeps the      *)
(* three IEEE-754 values that decide the program's control flow: +inf,     *)
(* -inf and NaN.  A magnitude above MaxVal is an infinity, a division by    *)
(* zero and inf - inf are what IEEE-754 makes them, and every comparison   *)
(* with NaN is false.  Products and quotients truncate toward zero.        *)
(***************************************************************************)
EXTENDS Integers, Sequences

\* The largest finite magnitude of a model number (f64: about 1.8e308).
MaxVal == 1000000000

\* The units a model integer counts, per SI unit of the f64 it stands for:
\* t and delta_t in ms, velocity in mm/s, a_g and a_d in mm/s^2, forces in
\* mN, width in mm, air density in 1e-8 kg/m^3, the mass of the earth in
\* 1e-5 M_EARTH; distance in whole metres and mass in whole kg.
Unit ==
    [time |-> 1000, velocity |-> 1000, accel |-> 1000, force |-> 1000,
     width |-> 1000, density |-> 100000000, earth |-> 100000,
     distance |-> 1, mass |-> 1]

-----------------------------------------------------------------------------
(* f64 values and arithmetic *)

\* The arithmetic is written as functions of the integers: a function is
\* applied to the values of its arguments, as an f64 operation is.

PosInf == MaxVal + 1
NegInf == -(MaxVal + 1)
NaN == MaxVal + 2

IsNaN(x) == x = NaN
IsInf(x) == x = PosInf \/ x = NegInf
Finite(x) == -MaxVal <= x /\ x <= MaxVal
Sgn(x) == IF x = 0 THEN 0 ELSE IF x > 0 THEN 1 ELSE -1
Mag(x) == IF x < 0 THEN -x ELSE x

\* x > y and x < y on f64: false as soon as one side is NaN.
FGt(x, y) == ~IsNaN(x) /\ ~IsNaN(y) /\ x > y
FLt(x, y) == ~IsNaN(x) /\ ~IsNaN(y) /\ x < y

\* -x
FNeg == [x \in Int |-> IF IsNaN(x) THEN NaN ELSE -x]

\* f64::abs
FAbs == [x \in Int |-> IF IsNaN(x) THEN NaN ELSE Mag(x)]

\* x + y
FAdd ==
    [x \in Int, y \in Int |->
        IF Finite(x) /\ Finite(y)
        THEN (IF x + y > MaxVal THEN PosInf
              ELSE IF x + y < -MaxVal THEN NegInf
              ELSE x + y)
        ELSE IF IsNaN(x) \/ IsNaN(y) THEN NaN
        ELSE IF IsInf(x) THEN (IF y = -x THEN NaN ELSE x)
        ELSE y]

\* x - y
FSub == [x \in Int, y \in Int |-> FAdd[x, FNeg[y]]]

\* Products of two model numbers leave the 32-bit integers, so a * b / c is
\* computed in long arithmetic on digits in base 2^15 (a model number has
\* two of them), least significant first.
Lo(n) == n % 32768
Hi(n) == n \div 32768

\* a * b for 0 <= a, b < 2^30: four digits.
Product ==
    [a \in Nat, b \in Nat |->
        LET low == Lo(a) * Lo(b)
            mid == Lo(a) * Hi(b) + Hi(a) * Lo(b) + Hi(low)
            high == Hi(a) * Hi(b) + Hi(mid)
        IN  <<Lo(low), Lo(mid), Lo(high), Hi(high)>>]

\* u * d for four digits u and 0 < d <= 2^14: five digits.
Scale ==
    [u \in Seq(Nat), d \in Nat |->
        LET x1 == u[1] * d
            x2 == u[2] * d + Hi(x1)
            x3 == u[3] * d + Hi(x2)
            x4 == u[4] * d + Hi(x3)
        IN  <<Lo(x1), Lo(x2), Lo(x3), Lo(x4), Hi(x4)>>]

\* The power of two that brings the leading digit of a two-digit c to 2^14
\* or more; 1 for a c of one digit.
Shift ==
    [c \in Nat |->
        IF c < 32768 THEN 1
        ELSE CHOOSE k \in {1, 2, 4, 8, 16, 32, 64, 128, 256, 512, 1024, 2048,
                           4096, 8192, 16384} :
                 Hi(c) * k >= 16384 /\ Hi(c) * k < 32768]

\* r * 2^15 + u - k * v where that can be a remainder of a division by
\* v < 2^30, and -1 where it cannot.
Left(r, u, v, k) ==
    IF r - k * Hi(v) < 0 \/ r - k * Hi(v) > 65535 THEN -1
    ELSE (r - k * Hi(v)) * 32768 + u - k * Lo(v)

\* The quotient of r * 2^15 + u by v, for 0 <= r < v < 2^30 and a digit u.
\* For a v of two digits, the leading one 2^14 or more, it is one of the
\* three numbers from r \div Hi(v) down.
Digit ==
    [r \in Nat, u \in Nat, v \in Nat |->
        IF v < 32768 THEN (r * 32768 + u) \div v
        ELSE CHOOSE k \in ((r \div Hi(v)) - 2)..(r \div Hi(v)) :
                 /\ k >= 0 /\ k <= 32767
                 /\ Left(r, u, v, k) >= 0 /\ Left(r, u, v, k) < v]

\* One step of a long division by v: the quotient q so far (-1 once it is
\* known to be above MaxVal) and the remainder r so far take in the digit u.
Advance ==
    [q \in Int, r \in Nat, u \in Nat, v \in Nat, k \in Nat |->
        <<IF q < 0 \/ q > 32767 THEN -1 ELSE q * 32768 + k, Left(r, u, v, k)>>]

DivStep ==
    [s \in Int \X Nat, u \in Nat, v \in Nat |->
        Advance[s[1], s[2], u, v, Digit[s[2], u, v]]]

\* The quotient of the five digits u by v.
LongDiv ==
    [u \in Seq(Nat), v \in Nat |->
        DivStep[DivStep[DivStep[DivStep[DivStep[<<0, 0>>, u[5], v], u[4], v],
                                u[3], v], u[2], v], u[1], v][1]]

\* q as a magnitude: +inf when it is above MaxVal.
Clamp == [q \in Int |-> IF q < 0 \/ q > MaxVal THEN PosInf ELSE q]

\* The magnitude a * b / c, truncated, for 0 <= a, b and 0 < c, none above
\* MaxVal + 3.
MulDivQ ==
    [a \in Nat, b \in Nat, c \in Nat |->
        Clamp[LongDiv[Scale[Product[a, b], Shift[c]], c * Shift[c]]]]

\* x * y, the product counted in units c times coarser than the factors'.
FMulDiv ==
    [x \in Int, y \in Int, c \in Nat |->
        IF Finite(x) /\ Finite(y)
        THEN Sgn(x) * Sgn(y) * MulDivQ[Mag(x), Mag(y), c]
        ELSE IF IsNaN(x) \/ IsNaN(y) THEN NaN
        ELSE IF (IsInf(x) /\ y = 0) \/ (IsInf(y) /\ x = 0) THEN NaN
        ELSE Sgn(x) * Sgn(y) * PosInf]

\* x / y, the quotient counted in units s times finer than the dividend's.
FQuot ==
    [x \in Int, y \in Int, s \in Nat |->
        IF Finite(x) /\ Finite(y) /\ y # 0
        THEN Sgn(x) * Sgn(y) * MulDivQ[Mag(x), s, Mag(y)]
        ELSE IF IsNaN(x) \/ IsNaN(y) THEN NaN
        ELSE IF IsInf(x) /\ IsInf(y) THEN NaN
        ELSE IF y = 0 THEN (IF x = 0 THEN NaN ELSE Sgn(x) * PosInf)
        ELSE IF IsInf(y) THEN 0
        ELSE Sgn(x) * Sgn(y) * PosInf]

\* f64::floor of a time in ms.
FFloor(x) == IF IsNaN(x) \/ IsInf(x) THEN x ELSE x - (x % Unit.time)

\* `x as i64` of a time in ms, in whole seconds: NaN is 0, +inf is i64::MAX
\* (kept here by its residue modulo 21600, which is all the program uses).
AsI64(x) ==
    IF IsNaN(x) THEN 0
    ELSE IF x = PosInf THEN 12607
    ELSE IF x = NegInf THEN -12608
    ELSE Sgn(x) * (Mag(x) \div Unit.time)

\* `x as usize` of a distance in whole metres: NaN and negatives are 0.
AsUsize(x) == IF IsNaN(x) \/ x < 0 THEN 0 ELSE x

\* The largest r with r * r <= n and 100 * h <= r < 100 * h + 100.
Root ==
    [n \in Nat, h \in Nat |->
        CHOOSE r \in (100 * h)..(100 * h + 99) :
            r * r <= n /\ n < (r + 1) * (r + 1)]

\* The largest r with r * r <= n, for 0 <= n <= MaxVal + 3: its hundreds,
\* then r itself.
ISqrt ==
    [n \in Nat |->
        Root[n, CHOOSE h \in 0..320 :
                    /\ (100 * h) * (100 * h) <= n
                    /\ n < (100 * h + 100) * (100 * h + 100)]]

\* f64::powf(b, 5.25588) of a base counted in millionths, with the exponent
\* taken as 5 + 1/4: b^5 times the fourth root of b.
Powf ==
    [b \in Int |->
        IF IsNaN(b) \/ b < 0 THEN NaN
        ELSE IF IsInf(b) THEN PosInf
        ELSE LET b2 == FMulDiv[b, b, 1000000]
                 b4 == FMulDiv[b2, b2, 1000000]
                 b5 == FMulDiv[b4, b, 1000000]
             IN  FMulDiv[b5, ISqrt[ISqrt[b] * 1000], 1000]]

-----------------------------------------------------------------------------
(* The constants and the physical models *)

\* G * M_EARTH = 6.67e-11 * 5.97e24 m^3/s^2, in km^3/s^2.
GM_EARTH == 398199
R_EARTH == 6367000
KARMAN_LINE == 100000

\* kg/m^3, in units of 1e-8 kg/m^3.
DENSITY_AT_10KM ==
    <<122000000, 41300000, 8890000, 1840000, 400000, 103000, 31000, 8300,
      1850, 412, 0>>

\* TableIndex with the altitude rounded to the nearest table entry.
TableIndexRounded(elevation) == (AsUsize(elevation) + 5000) \div 10000

\* `elevation as usize / 10000`, the index into DENSITY_AT_10KM (from 0).
TableIndex(elevation) == AsUsize(elevation) \div 10000

\* The barometric branch: p = 101325 * (1 - 2.25577e-5 * elevation)^5.25588
\* in Pa, then (p * m) / (r * t) with m = 0.02897, r = 8.314, t = 288.
BarometricDensity(elevation) ==
    LET base == FSub[1000000, FMulDiv[elevation, 225577, 10000]]
        p == FMulDiv[101325, Powf[base], 1000000]
        pm == FMulDiv[p, 2897, 100]
        rt == 8314 * 288
    IN  FQuot[pm, rt, Unit.density]

air_density(elevation) ==
    IF FGt(elevation, KARMAN_LINE) THEN 0
    ELSE IF FGt(elevation, 0) THEN DENSITY_AT_10KM[TableIndex(elevation) + 1]
    ELSE BarometricDensity(elevation)

\* radius^3 * PI * 4 / 3 of a radius in m, in units of 10^7 km^3.
volume_of_sphere(radius) ==
    LET km == FQuot[radius, 1000, 1]
        r2 == FMulDiv[km, km, 1000]
        r3 == FMulDiv[r2, km, 10000]
    IN  FQuot[FMulDiv[FMulDiv[r3, 314159, 100000], 4, 1], 3, 1]

\* In units of 1e-5 M_EARTH.
mass_of_earth(elevation) ==
    IF FGt(elevation, 0) THEN Unit.earth
    ELSE LET density == FQuot[Unit.earth, volume_of_sphere(R_EARTH), 100000000]
         IN  FMulDiv[density,
                     FAbs[volume_of_sphere(FAdd[R_EARTH, elevation])],
                     100000000]

\* (G * m1 * m2) / (d * d) in mN, m1 in kg, m2 in units of 1e-5 M_EARTH and
\* d in m.  Neither G * m1 * m2 nor d * d is formed (both leave the model's
\* range): G * M_EARTH * m1 is divided by d twice, which is zero, infinite
\* or NaN where d * d makes the f64 quotient so, and then multiplied by
\* m2 / M_EARTH.
f_gravity(m1, m2, d) ==
    LET num == FMulDiv[GM_EARTH, m1, 1]
    IN  FMulDiv[FQuot[FQuot[num, d, 1000000], d, 1000000], m2, Unit.earth]

\* 0.5 * density * velocity * velocity * width * width * 1.09 in mN,
\* multiplied from left to right.
f_drag(density, velocity, width) ==
    LET x1 == FMulDiv[density, 1, 2]
        x2 == FMulDiv[x1, velocity, 1000000]
        x3 == FMulDiv[x2, velocity, 10000000]
        x4 == FMulDiv[x3, width, 1000]
        x5 == FMulDiv[x4, width, 10]
    IN  FMulDiv[x5, 109, 100]

-----------------------------------------------------------------------------
(* main *)

VARIABLES
    initial_distance, width, mass, delta_t, tartarus,   \* the arguments
    distance, velocity, t,                               \* the loop's state
    m_earth, density, a_g, a_d,                          \* the body's locals
    report,            \* the line the latest iteration printed, if any
    pc                 \* "loop": at the loop guard; "done": main has returned

vars ==
    <<initial_distance, width, mass, delta_t, tartarus, distance, velocity, t,
      m_earth, density, a_g, a_d, report, pc>>

\* table_limit without the `- 1`.
table_limit_len == Len(DENSITY_AT_10KM) * 10000

\* (DENSITY_AT_10KM.len() - 1) as f64 * 10000.0
table_limit == (Len(DENSITY_AT_10KM) - 1) * 10000

\* 9.0 * 24.0 * 3600.0 seconds
NineDays == 9 * 24 * 3600 * Unit.time

\* velocity * delta_t, in m
Travel(v) == FMulDiv[v, delta_t, Unit.velocity * Unit.time]

\* LoopGuard with the two modes kept apart: Tartarus mode runs on the clock
\* alone.
LoopGuardByMode ==
    IF tartarus THEN FLt(t, NineDays)
    ELSE FGt(FSub[distance, Travel(velocity)], 0)

\* LoopGuard with the distance of one second in place of that of one step.
LoopGuardOneSecond ==
    \/ tartarus /\ FLt(t, NineDays)
    \/ FGt(FSub[distance, FMulDiv[velocity, 1, Unit.velocity]], 0)

\* The condition of the while loop.
LoopGuard ==
    \/ tartarus /\ FLt(t, NineDays)
    \/ FGt(FSub[distance, Travel(velocity)], 0)

\* ShouldReport without the `distance > 0.0`.
ShouldReportBelowGround ==
    /\ FLt(FSub[t, FFloor(t)], delta_t)
    /\ \/ FLt(t, 20 * Unit.time)
       \/ FLt(distance, 5 * KARMAN_LINE)
       \/ AsI64(t) % (3600 * 6) = 0

\* The condition of the progress line.
ShouldReport ==
    /\ FLt(FSub[t, FFloor(t)], delta_t)
    /\ \/ FLt(t, 20 * Unit.time)
       \/ FGt(distance, 0) /\ FLt(distance, 5 * KARMAN_LINE)
       \/ AsI64(t) % (3600 * 6) = 0

\* ReportLine with velocity and distance in each other's place.
ReportLineSwapped(tt, v, d, ag, ad, me, rho) ==
    [t |-> tt, velocity |-> d, distance |-> v, a_g |-> ag, a_d |-> ad,
     m_earth |-> me, density |-> rho]

\* The values the progress line prints (those it derives from them, days,
\* mph and moonunits, left out).
ReportLine(tt, v, d, ag, ad, me, rho) ==
    [t |-> tt, velocity |-> v, distance |-> d, a_g |-> ag, a_d |-> ad,
     m_earth |-> me, density |-> rho]

\* The arguments the model runs the program on.  A family is a set of
\* initial distances, widths, masses and time steps, all combined.
Args(ds, ws, ms, dts, ts) ==
    { [initial_distance |-> d, width |-> w, mass |-> m, delta_t |-> dt,
       tartarus |-> tt] : d \in ds, w \in ws, m \in ms, dt \in dts, tt \in ts }

\* Drops of the default anvil through the atmosphere, fine steps.
Drops ==
    Args({-1000, 0, 1, 1000, 10000, 99999, 100000, 100001, 110000, 510000},
         {279}, {117}, {500, 1000}, {FALSE})

\* The same anvil with coarse steps, and a light, wide plate.
CoarseDrops ==
    Args({100000, 200000}, {279}, {117}, {10000}, {FALSE})
        \cup Args({200000}, {10000}, {1}, {60000}, {FALSE})

\* Tartarus mode, half-hour steps: from the centre of the earth, from the
\* surface and from beyond the moon; from there with one-hour steps too.
TartarusDrops ==
    Args({-6367000, 0, 620000000}, {279}, {117}, {1800000}, {TRUE})
        \cup Args({620000000}, {279}, {117}, {3600000}, {TRUE})

\* Arguments the program has no business running on.
InvalidDrops ==
    Args({1000}, {-279, 279}, {-117, 0}, {500}, {FALSE})
        \cup Args({1000}, {-279}, {117}, {500}, {FALSE})

Configurations == Drops \cup CoarseDrops \cup TartarusDrops \cup InvalidDrops

Init ==
    /\ \E c \in Configurations :
          /\ initial_distance = c.initial_distance
          /\ width = c.width
          /\ mass = c.mass
          /\ delta_t = c.delta_t
          /\ tartarus = c.tartarus
    /\ distance = initial_distance
    /\ velocity = 0
    /\ t = 0
    /\ m_earth = 0
    /\ density = 0
    /\ a_g = 0
    /\ a_d = 0
    /\ report = <<>>
    /\ pc = "loop"

\* One iteration of the loop.
Step ==
    /\ pc = "loop"
    /\ LoopGuard
    /\ m_earth' = mass_of_earth(distance)
    /\ density' = air_density(distance)
    /\ a_g' = FQuot[f_gravity(mass, m_earth', FAdd[distance, R_EARTH]), mass, 1]
    /\ a_d' = IF FLt(distance, table_limit)
              THEN FQuot[f_drag(density', velocity, width), mass, 1]
              ELSE 0
    /\ velocity' = FAdd[velocity, FMulDiv[FSub[a_g', a_d'], delta_t, Unit.time]]
    /\ report' = IF ShouldReport
                 THEN <<ReportLine(t, velocity', distance, a_g', a_d',
                                   m_earth', density')>>
                 ELSE <<>>
    /\ distance' = FSub[distance, Travel(velocity')]
    /\ t' = FAdd[t, delta_t]
    /\ UNCHANGED <<initial_distance, width, mass, delta_t, tartarus, pc>>

\* The loop ends: the summary is printed from t, distance and velocity.
Finish ==
    /\ pc = "loop"
    /\ ~LoopGuard
    /\ pc' = "done"
    /\ UNCHANGED <<initial_distance, width, mass, delta_t, tartarus, distance,
                   velocity, t, m_earth, density, a_g, a_d, report>>

Next == Step \/ Finish

Spec == Init /\ [][Next]_vars

\* The program is sequential: a step that can be taken is taken.
FairSpec == Spec /\ WF_vars(Step) /\ WF_vars(Finish)

-----------------------------------------------------------------------------
(* The claims *)

\* mass > 0, time_step > 0 and width >= 0
ValidConfig == mass > 0 /\ delta_t > 0 /\ width >= 0

\* distance - velocity * time_step > 0, written out
NextDistancePositive ==
    FGt(FSub[distance, FMulDiv[velocity, delta_t, 1000000]], 0)

\* C1, as claimed: in Tartarus mode the loop stops at the first iteration
\* boundary with elapsed_time >= 9 days, so elapsed_time never reaches
\* 9 days + time_step and on exit it is at least 9 days.
C1_StopsAtNineDays ==
    (tartarus /\ delta_t > 0) =>
        /\ FLt(t, NineDays + delta_t)
        /\ pc = "done" => ~FLt(t, NineDays)

\* C1, amended: in Tartarus mode the loop leaves only at an iteration
\* boundary where elapsed_time >= 9 days and distance - velocity * time_step
\* is not positive, and leaves at the first such boundary; until then it
\* keeps running, past 9 days too.
C1_StopsAfterNineDaysOnTheGround ==
    [][(tartarus /\ delta_t > 0 /\ pc = "loop") =>
          IF FLt(t, NineDays) \/ NextDistancePositive
          THEN pc' = "loop"
          ELSE pc' = "done"]_vars

\* C1's case: a Tartarus run that ended a full step or more after 9 days.
C1_Witness == tartarus /\ pc = "done" /\ ~FLt(t, NineDays + delta_t)

\* C2: in normal mode every valid configuration started above the ground
\* terminates.
C2_Terminates ==
    (~tartarus /\ ValidConfig /\ FGt(initial_distance, 0)) => <>(pc = "done")

\* C3, as claimed: in normal mode a run (of a valid configuration) started
\* above the ground ends with distance <= 0.
C3_EndsAtOrBelowGround ==
    (~tartarus /\ ValidConfig /\ FGt(initial_distance, 0) /\ pc = "done") =>
        ~IsNaN(distance) /\ distance <= 0

\* C3, amended: in normal mode a run started above the ground ends with
\* distance - velocity * time_step not positive: the next step would reach
\* the ground, the distance in the summary may still be positive.
C3_EndsOneStepFromGround ==
    (~tartarus /\ FGt(initial_distance, 0) /\ pc = "done") =>
        ~NextDistancePositive

\* C3's case: a normal run of the default anvil that ended above the
\* ground, less than a step from it.
C3_Witness ==
    /\ ~tartarus /\ ValidConfig /\ FGt(initial_distance, 0) /\ pc = "done"
    /\ FGt(distance, 0) /\ FGt(velocity, 0)

\* C4: an invalid configuration is rejected: the loop body never runs for
\* it (no update of velocity, distance, elapsed_time, no report line) and
\* main does not return with a summary.
C4_InvalidRejected ==
    ~ValidConfig =>
        /\ t = 0 /\ velocity = 0 /\ distance = initial_distance
        /\ report = <<>>
        /\ pc # "done"

\* The altitude of a printed line is in the table branch of the density.
InTable(line) == FGt(line.distance, 0) /\ ~FGt(line.distance, 100000)

\* The altitudes next to the table's 10 km marks, up to 110 km.
TableEdges == {a \in {10000 * k + e : k \in 0..11, e \in {-1, 0, 1}} : a > 0}

\* C5, as claimed: at every altitude a in (0, 100000] the density is
\* DENSITY_AT_10KM[floor(a / 10000)] with an index of at most 9, and above
\* 100000 it is 0.
C5_IndexAtMostNine ==
    \A i \in 1..Len(report) :
        /\ InTable(report[i]) =>
              /\ report[i].density =
                    DENSITY_AT_10KM[(report[i].distance \div 10000) + 1]
              /\ report[i].distance \div 10000 <= 9
        /\ FGt(report[i].distance, 100000) => report[i].density = 0

\* C5, amended: at every altitude a in (0, 100000] the density is
\* DENSITY_AT_10KM[floor(a / 10000)]; the index is at most 9 below 100000
\* and is 10, the last entry, at exactly 100000; above 100000 it is 0.
\* Stated of the lines the runs print and, once a run is over, of the
\* altitudes next to every 10 km mark.
C5_IndexAtMostTen ==
    /\ \A i \in 1..Len(report) :
          /\ InTable(report[i]) =>
                /\ report[i].density =
                      DENSITY_AT_10KM[(report[i].distance \div 10000) + 1]
                /\ report[i].distance \div 10000 <= 10
                /\ report[i].distance \div 10000 = 10
                      <=> report[i].distance = 100000
          /\ FGt(report[i].distance, 100000) => report[i].density = 0
    /\ pc = "done" =>
          \A a \in TableEdges :
              air_density(a) = IF a > 100000 THEN 0
                               ELSE DENSITY_AT_10KM[(a \div 10000) + 1]

\* C5's case: a line printed at exactly 100000 m, and lines printed lower.
C5_Witness ==
    /\ report # <<>>
    /\ report[1].distance = 100000
    /\ report[1].density = DENSITY_AT_10KM[11]

\* C6: at the start of every iteration distance + R_EARTH is not zero.
C6_CentreDistanceNonZero ==
    (pc = "loop" /\ LoopGuard) => FAdd[distance, R_EARTH] # 0

\* C7, as claimed: a printed line shows the velocity and the distance of
\* one iteration boundary: those before the iteration or those after it
\* (stated for the valid configurations).
C7_ReportIsOneStep ==
    [][(ValidConfig /\ pc = "loop" /\ pc' = "loop" /\ report' # <<>>) =>
          \/ report'[1].velocity = velocity /\ report'[1].distance = distance
          \/ report'[1].velocity = velocity'
                /\ report'[1].distance = distance']_vars

\* C7, amended: a printed line shows the velocity the iteration has just
\* computed with the distance from before the iteration.
C7_ReportIsMidStep ==
    [][(pc = "loop" /\ pc' = "loop" /\ report' # <<>>) =>
          /\ report'[1].velocity = velocity'
          /\ report'[1].distance = distance]_vars

\* C7's case: a line whose velocity is the current one and whose distance
\* the iteration has since left.
C7_Witness ==
    /\ ValidConfig
    /\ report # <<>>
    /\ report[1].velocity = velocity
    /\ report[1].distance # distance
    /\ velocity # 0

\* C8: for a valid configuration started above the ground the velocity is
\* never negative.
C8_VelocityNonNegative ==
    (ValidConfig /\ FGt(initial_distance, 0)) =>
        ~IsNaN(velocity) /\ velocity >= 0

\* elapsed_time has just crossed a whole second
WholeSecond == FLt(FSub[t, FFloor(t)], delta_t)

\* elapsed_time, in whole seconds, is a multiple of six hours
SixHours == AsI64(t) % 21600 = 0

\* C9, as claimed: an iteration prints a line exactly when elapsed_time has
\* just crossed a whole second and elapsed_time < 20 s, or distance <
\* 500000 m, or the whole second is a multiple of six hours.
C9_ReportsBelow500km ==
    [][(pc = "loop" /\ pc' = "loop") =>
          (report' # <<>> <=>
              /\ WholeSecond
              /\ \/ FLt(t, 20000)
                 \/ FLt(distance, 500000)
                 \/ SixHours)]_vars

\* C9, amended: ... or 0 < distance < 500000 m, or ...: at or below the
\* ground the distance does not make a line print.
C9_ReportsBetweenGroundAnd500km ==
    [][(pc = "loop" /\ pc' = "loop") =>
          (report' # <<>> <=>
              /\ WholeSecond
              /\ \/ FLt(t, 20000)
                 \/ FGt(distance, 0) /\ FLt(distance, 500000)
                 \/ SixHours)]_vars

\* C9's case: a line printed after 20 s, off the six-hour beat, between the
\* ground and 500 km.
C9_Witness ==
    /\ report # <<>>
    /\ ~FLt(report[1].t, 20000)
    /\ (report[1].t \div 1000) % 21600 # 0
    /\ report[1].distance > 0 /\ report[1].distance < 500000

\* C10, as claimed: drag is applied below table_limit and is 0 from there
\* on, and table_limit is not the Karman line: at some altitude the loop
\* leaves drag out although the density there is not 0.
C10_LimitsDiffer ==
    /\ \A i \in 1..Len(report) :
          ~FLt(report[i].distance, table_limit) => report[i].a_d = 0
    /\ table_limit # KARMAN_LINE
    /\ \E a \in 100000..110000 :
          ~FLt(a, table_limit) /\ air_density(a) # 0

\* C10, amended: drag is drag_force(density(distance), velocity, width) /
\* mass below table_limit and 0 from there on; table_limit is the Karman
\* line, 100000 m, so at every altitude where the loop leaves drag out the
\* density is 0 as well.
C10_LimitsAgree ==
    [][(pc = "loop" /\ pc' = "loop") =>
          /\ table_limit = 100000
          /\ a_d' = IF FLt(distance, 100000)
                    THEN FQuot[f_drag(density', velocity, width), mass, 1]
                    ELSE 0
          /\ (~IsNaN(distance) /\ distance >= 100000) => density' = 0]_vars

\* C10's case: an iteration at or above 100000 m, without drag and in air
\* of density 0.
C10_Witness ==
    /\ report # <<>>
    /\ report[1].distance >= 100000 /\ ~IsNaN(report[1].distance)
    /\ report[1].a_d = 0 /\ report[1].density = 0
    /\ report[1].velocity > 0

=============================================================================
